---- MODULE Spec2Model ----
(* Model of main.py: a FastAPI service that keeps one cached video file and  *)
(* one cached audio file on disk, refreshed by the two download handlers and *)
(* expired by two background asyncio tasks.                                  *)
(*                                                                           *)
(* All coroutines run on one asyncio event loop.  The handlers are           *)
(* `async def` but contain no `await`: the yt_dlp call is a blocking call    *)
(* made on the loop's thread, so from the moment a handler starts until it   *)
(* returns no other coroutine (handler, sweeper, shutdown) runs.  The wall   *)
(* clock, however, keeps advancing.                                          *)
EXTENDS Integers, FiniteSets, Sequences, TLC

\* ---------------------------------------------------------------- bounds
NumURLs == 2                       \* distinct request URLs
MaxElapsed == 1353                 \* seconds of wall clock explored
MaxPending == 2                    \* connections being served at a time

\* ------------------------------------------------------------- constants
CACHE_DIR == "/tmp/video_cache"
AUDIO_CACHE_DIR == "/tmp/audio_cache"
CACHE_EXPIRY_TIME == 15 * 60
SleepInterval == 60                \* asyncio.sleep(60) in both sweepers

Kinds == {"video", "audio"}
URLs == 1 .. NumURLs
\* time.time() is epoch seconds: far beyond the expiry time at start-up
StartTime == 2 * CACHE_EXPIRY_TIME
\* the clock is observed at instants at least one sleep interval apart,
\* chosen so that idle times of exactly the expiry time and one second more
\* both occur
TickSteps == {CACHE_EXPIRY_TIME \div 2, (CACHE_EXPIRY_TIME \div 2) + 1}

\* Python None for a path
None == [dir |-> "None", stem |-> 0, ext |-> ""]
\* no handler is running
NoReq == [kind |-> "none", url |-> 0]
\* no response produced yet
NoResponse == [status |-> 0, path |-> None, hit |-> FALSE]

\* what the external yt_dlp call can do
Outcomes == {"ok", "ok_nofile", "raise_partial", "raise_output", "raise_clean"}

VARIABLES
    cached_video_path,   \* global, line 35
    cached_audio_path,   \* global, line 36
    last_access_time,    \* global, line 37 (one timestamp for both kinds)
    files,               \* paths that exist under the two cache directories
    now,                 \* time.time()
    req,                 \* the handler currently holding the event loop
    due,                 \* per sweeper: its asyncio.sleep(60) has elapsed
    shut,                \* shutdown_event has run
    response,            \* what the last finished handler returned
    slot_access,         \* per kind: time of that kind's last hit or replace
    removed,             \* the path the last step passed to os.remove
    pending              \* paths of FileResponses returned by a handler and
                         \* not yet opened by the framework for streaming

vars == <<cached_video_path, cached_audio_path, last_access_time, files, now,
          req, due, shut, response, slot_access, removed, pending>>

\* ------------------------------------------------------- pure functions
\* hashlib.md5(url.encode()).hexdigest(): a fixed-width digest of the URL
\* alone (no kind discriminator)
md5(url) == (url * 7 + 3) % 16

get_cache_filename(url) == [stem |-> md5(url), ext |-> ".mp4"]

get_audio_cache_filename_mp4(url) == [stem |-> md5(url), ext |-> ".mp4"]
get_audio_cache_filename(url) == [stem |-> md5(url), ext |-> ".mp3"]

\* os.path.join(dir, filename)
join(dir, fn) == [dir |-> dir, stem |-> fn.stem, ext |-> fn.ext]

\* os.path.basename(path)
basename(p) == [stem |-> p.stem, ext |-> p.ext]

cache_dir(k) == IF k = "video" THEN CACHE_DIR ELSE AUDIO_CACHE_DIR

cache_filename(k, url) ==
    IF k = "video" THEN get_cache_filename(url)
                   ELSE get_audio_cache_filename(url)

new_cache_filepath(k, url) == join(cache_dir(k), cache_filename(k, url))

\* the global holding kind k's cached path
cached(k) == IF k = "video" THEN cached_video_path ELSE cached_audio_path

\* 'outtmpl' handed to yt_dlp: the destination for video, the destination
\* with its ".mp3" cut off for audio
outtmpl(k, dest) == IF k = "video" THEN dest ELSE [dest EXCEPT !.ext = ""]

\* files the external call leaves behind: the finished file (for audio the
\* postprocessor appends ".mp3" to the template), or a partial file at the
\* template it was given, or a partial file at the output's final name, or
\* nothing
AdapterFiles(k, dest, o) ==
    CASE o = "ok" ->
           {IF k = "video" THEN outtmpl(k, dest)
                           ELSE [outtmpl(k, dest) EXCEPT !.ext = ".mp3"]}
      [] o = "raise_partial" -> {outtmpl(k, dest)}
      [] o = "raise_output" ->
           {IF k = "video" THEN outtmpl(k, dest)
                           ELSE [outtmpl(k, dest) EXCEPT !.ext = ".mp3"]}
      [] OTHER -> {}

AdapterRaised(o) == o \in {"raise_partial", "raise_output", "raise_clean"}

IsHitNever(path, fn) == FALSE
\* the cache check of lines 141 / 187
IsHit(path, fn) == path # None /\ basename(path) = fn

ExpiredAtThreshold(t, last) == t - last >= CACHE_EXPIRY_TIME
\* the idle test of lines 94 / 121
Expired(t, last) == t - last > CACHE_EXPIRY_TIME

OutputMissingNever(fs, dest) == FALSE
\* "if not os.path.exists(new_cache_filepath)", lines 158 / 209
OutputMissing(fs, dest) == dest \notin fs

RemoveOldKeep(fs, old) == fs
\* "if cached and os.path.exists(cached): os.remove(cached)", lines 162-163
RemoveOld(fs, old) == IF old # None /\ old \in fs THEN fs \ {old} ELSE fs

ErrorCleanupDir(fs, dest) == {p \in fs : p.dir # dest.dir}
\* "if os.path.exists(new): os.remove(new)" in the except block
ErrorCleanup(fs, dest) == IF dest \in fs THEN fs \ {dest} ELSE fs

\* what can be raised inside the handler's try block: the HTTPException of
\* line 159 / 210, or whatever the yt_dlp call raises
OutputMissingError == [type |-> "HTTPException", status |-> 404]

AdapterError == [type |-> "DownloadError", status |-> 500]

\* "except Exception as e": HTTPException derives from Exception, so the
\* clause catches the handler's own 404 as well
CaughtByExcept(e) == e.type \in {"HTTPException", "DownloadError"}

\* status of the error response: whatever the except clause catches is
\* re-raised as HTTPException(status_code=500)
ErrorStatus(e) == IF CaughtByExcept(e) THEN 500 ELSE e.status

\* shutil.rmtree of both cache directories
rmtree(fs, dir) == {p \in fs : p.dir # dir}

\* ---------------------------------------------------------------- state
SetCachedSwapped(k, p) ==
    IF k = "video"
    THEN cached_audio_path' = p /\ UNCHANGED cached_video_path
    ELSE cached_video_path' = p /\ UNCHANGED cached_audio_path

\* assignment to the handler's / sweeper's own global
SetCached(k, p) ==
    IF k = "video"
    THEN cached_video_path' = p /\ UNCHANGED cached_audio_path
    ELSE cached_audio_path' = p /\ UNCHANGED cached_video_path

Init ==
    /\ cached_video_path = None
    /\ cached_audio_path = None
    /\ last_access_time = 0
    /\ files = {}
    /\ now = StartTime
    /\ req = NoReq
    /\ due = [k \in Kinds |-> FALSE]
    /\ shut = FALSE
    /\ response = NoResponse
    /\ slot_access = [k \in Kinds |-> 0]
    /\ removed = None
    /\ pending = {}

\* A handler starts (the loop is free): cache check; on a hit it returns at
\* once, on a miss it enters the blocking yt_dlp call.
Request(k, url) ==
    /\ req = NoReq
    /\ ~shut
    /\ Cardinality(pending) < MaxPending
    /\ IF IsHit(cached(k), cache_filename(k, url))
       THEN /\ last_access_time' = now
            /\ slot_access' = [slot_access EXCEPT ![k] = now]
            /\ response' = [status |-> 200, path |-> cached(k), hit |-> TRUE]
            /\ pending' = pending \cup {cached(k)}
            /\ UNCHANGED req
       ELSE /\ req' = [kind |-> k, url |-> url]
            /\ UNCHANGED <<last_access_time, slot_access, response, pending>>
    /\ removed' = None
    /\ UNCHANGED <<cached_video_path, cached_audio_path, files, now, due, shut>>

\* The yt_dlp call returns or raises with outcome o, and the handler runs to
\* its end.
Resume(k, o) ==
    /\ req # NoReq
    /\ req.kind = k
    /\ LET dest == new_cache_filepath(k, req.url)
           fs == files \cup AdapterFiles(k, dest, o)
       IN  IF ~AdapterRaised(o) /\ ~OutputMissing(fs, dest)
           THEN /\ files' = RemoveOld(fs, cached(k))
                /\ removed' = IF RemoveOld(fs, cached(k)) # fs THEN cached(k) ELSE None
                /\ SetCached(k, dest)
                /\ last_access_time' = now
                /\ slot_access' = [slot_access EXCEPT ![k] = now]
                /\ response' = [status |-> 200, path |-> dest, hit |-> FALSE]
                /\ pending' = pending \cup {dest}
           ELSE /\ files' = ErrorCleanup(fs, dest)
                /\ removed' = IF ErrorCleanup(fs, dest) # fs THEN dest ELSE None
                /\ response' =
                     [status |-> ErrorStatus(IF AdapterRaised(o)
                                             THEN AdapterError
                                             ELSE OutputMissingError),
                      path |-> None, hit |-> FALSE]
                /\ UNCHANGED <<cached_video_path, cached_audio_path,
                               last_access_time, slot_access, pending>>
    /\ req' = NoReq
    /\ UNCHANGED <<now, due, shut>>

download_video(url) == Request("video", url)

download_audio(url) == Request("audio", url)

download_video_return(o) == Resume("video", o)

download_audio_return(o) == Resume("audio", o)

\* One iteration of a sweeper after its sleep.
Sweep(k) ==
    /\ req = NoReq
    /\ due[k]
    /\ due' = [due EXCEPT ![k] = FALSE]
    /\ IF cached(k) # None /\ Expired(now, last_access_time)
       THEN /\ files' = files \ {cached(k)}
            /\ removed' = IF cached(k) \in files THEN cached(k) ELSE None
            /\ SetCached(k, None)
            /\ last_access_time' = 0
            /\ slot_access' = [slot_access EXCEPT ![k] = 0]
       ELSE /\ removed' = None
            /\ UNCHANGED <<cached_video_path, cached_audio_path,
                           last_access_time, files, slot_access>>
    /\ UNCHANGED <<now, req, shut, response, pending>>

clean_cache == Sweep("video")

clean_audio_cache == Sweep("audio")

\* The wall clock advances; both sleeps (60 s) have elapsed by then.
Tick ==
    \E d \in TickSteps :
        /\ d >= SleepInterval
        /\ now + d <= StartTime + MaxElapsed
        /\ now' = now + d
        /\ due' = [k \in Kinds |-> TRUE]
        /\ removed' = None
        /\ UNCHANGED <<cached_video_path, cached_audio_path, last_access_time,
                       files, req, shut, response, slot_access, pending>>

\* The framework, after a handler returned a FileResponse, opens the file to
\* stream it.  This happens in a later turn of the event loop, so handlers
\* and sweepers can run in between.
send_response(p) ==
    /\ req = NoReq
    /\ p \in pending
    /\ pending' = pending \ {p}
    /\ removed' = None
    /\ UNCHANGED <<cached_video_path, cached_audio_path, last_access_time,
                   files, now, req, due, shut, response, slot_access>>

\* The shutdown handler: removes both directories; touches no global and
\* cancels no task.  The server runs it once the open connections are done.
shutdown_event ==
    /\ req = NoReq
    /\ ~shut
    /\ pending = {}
    /\ files' = rmtree(rmtree(files, CACHE_DIR), AUDIO_CACHE_DIR)
    /\ shut' = TRUE
    /\ removed' = None
    /\ UNCHANGED <<cached_video_path, cached_audio_path, last_access_time,
                   now, req, due, response, slot_access, pending>>

Next ==
    \/ \E url \in URLs : download_video(url)
    \/ \E url \in URLs : download_audio(url)
    \/ \E o \in Outcomes : download_video_return(o)
    \/ \E o \in Outcomes : download_audio_return(o)
    \/ clean_cache
    \/ clean_audio_cache
    \/ Tick
    \/ \E p \in pending : send_response(p)
    \/ shutdown_event

Spec == Init /\ [][Next]_vars

TypeOK ==
    /\ now \in StartTime .. StartTime + MaxElapsed
    /\ last_access_time \in 0 .. now
    /\ req = NoReq \/ (req.kind \in Kinds /\ req.url \in URLs)
    /\ response.status \in {0, 200, 404, 500}
    /\ Cardinality(pending) <= MaxPending

\* ------------------------------------------------------------ properties
Path(k, url) == new_cache_filepath(k, url)

Resident(k) == cached(k) # None

FailingOutcome(o) == AdapterRaised(o) \/ o = "ok_nofile"

\* C1: a request for the URL whose file a successful miss installed in the
\* slot (and that is still the slot's resident) is a hit: it returns that
\* path, the file exists, last_access_time becomes the current time and the
\* handler does not enter the yt_dlp call.
C1_HitAfterInstall ==
    [][\A k \in Kinds, url \in URLs :
         (Request(k, url) /\ cached(k) = Path(k, url)) =>
            /\ response' = [status |-> 200, path |-> Path(k, url), hit |-> TRUE]
            /\ Path(k, url) \in files'
            /\ last_access_time' = now
            /\ req' = NoReq]_vars

C1_Witness ==
    /\ response.hit
    /\ response.status = 200
    /\ response.path = cached_video_path
    /\ response.path \in files
    /\ last_access_time = now
    /\ now > StartTime
    /\ req = NoReq

\* C2: when a request succeeds while the slot holds another URL's file P1,
\* afterwards P1 is gone from disk, the slot holds the new path P2, P2
\* exists, and a lookup for the old URL's filename misses.
C2_ReplaceRemovesOld ==
    [][\A k \in Kinds, o \in Outcomes :
         (Resume(k, o) /\ response'.status = 200 /\ Resident(k)) =>
            /\ cached(k) \notin files'
            /\ cached(k)' = Path(k, req.url)
            /\ cached(k)' # cached(k)
            /\ cached(k)' \in files'
            /\ ~IsHit(cached(k)', basename(cached(k)))]_vars

C2_Witness ==
    /\ removed # None
    /\ removed.dir = AUDIO_CACHE_DIR
    /\ Resident("audio")
    /\ cached_audio_path # removed
    /\ response = [status |-> 200, path |-> cached_audio_path, hit |-> FALSE]
    /\ removed \notin files

\* C3: a request whose yt_dlp call raises, or returns without the expected
\* file, leaves both globals holding the paths, last_access_time and the
\* residents' files as they were, and its cleanup does not remove a
\* resident's file.
C3_FailureKeepsSlot ==
    [][\A k \in Kinds, o \in Outcomes :
         (Resume(k, o) /\ FailingOutcome(o)) =>
            /\ UNCHANGED <<cached_video_path, cached_audio_path,
                           last_access_time, slot_access>>
            /\ \A j \in Kinds :
                 Resident(j) => /\ (cached(j) \in files <=> cached(j) \in files')
                                /\ removed' # cached(j)
            /\ response'.status # 200]_vars

C3_Witness ==
    /\ response.status = 500
    /\ req = NoReq
    /\ ~shut
    /\ \A k \in Kinds : Resident(k) /\ cached(k) \in files
    /\ removed # None

\* C4: a yt_dlp call that returns normally without the expected file ends
\* the request with status 404, and status 500 is produced only when the
\* call itself raised.
C4_MissingOutputIs404 ==
    [][\A k \in Kinds, o \in Outcomes :
         Resume(k, o) =>
            /\ (o = "ok_nofile" => response'.status = 404)
            /\ (response'.status = 500 => AdapterRaised(o))]_vars

\* C5: a sweep of kind k deletes the resident file and clears the slot
\* exactly when the slot is resident and the time since that kind's own last
\* hit or replace exceeds the expiry time; otherwise it changes nothing.
C5_SweepIffOwnIdle ==
    [][\A k \in Kinds :
         Sweep(k) =>
            IF Resident(k) /\ now - slot_access[k] > CACHE_EXPIRY_TIME
            THEN cached(k)' = None /\ cached(k) \notin files'
            ELSE UNCHANGED <<cached_video_path, cached_audio_path, files>>]_vars

\* C6: no step clears a slot whose own last hit or replace is at most the
\* expiry time ago.
C6_NoEarlyEviction ==
    [][\A k \in Kinds :
         (Resident(k) /\ cached(k)' = None) =>
            now > slot_access[k] + CACHE_EXPIRY_TIME]_vars

\* a sweep ran exactly at the expiry time after the slot's last access and
\* left the resident in place
C6_Witness ==
    /\ Resident("video")
    /\ cached_video_path \in files
    /\ ~due["video"]
    /\ now = slot_access["video"] + CACHE_EXPIRY_TIME
    /\ last_access_time = slot_access["video"]
    /\ req = NoReq

\* C7: once a slot's own idle time exceeds the expiry time, the sweeper's
\* next iteration evicts it, whatever was served for the other kind: after
\* that kind's sweeper has run at the current time the slot is not resident
\* with an idle time above the expiry time.
C7_IdleSlotEvicted ==
    \A k \in Kinds :
        (Resident(k) /\ ~due[k]) => now - slot_access[k] <= CACHE_EXPIRY_TIME

\* C8: a slot that holds a path holds the path of a file that exists.
C8_ResidentFileExists ==
    \A k \in Kinds : Resident(k) => cached(k) \in files

\* C9: a request for another URL than the resident's leaves the resident
\* (global and file) alone when it misses, and the resident goes away in the
\* handler's second half only when the yt_dlp call succeeded and the new
\* file is installed.
C9_MissKeepsResident ==
    [][\A k \in Kinds :
         Resident(k) =>
            /\ \A url \in URLs :
                 (Request(k, url) /\ cache_filename(k, url) # basename(cached(k))) =>
                    /\ cached(k)' = cached(k)
                    /\ files' = files
                    /\ removed' = None
                    /\ req' = [kind |-> k, url |-> url]
            /\ \A o \in Outcomes :
                 (Resume(k, o) /\ (cached(k)' # cached(k) \/ cached(k) \notin files')) =>
                    /\ o = "ok"
                    /\ cached(k)' = Path(k, req.url)
                    /\ cached(k)' \in files']_vars

C9_Witness ==
    /\ req.kind = "video"
    /\ Resident("video")
    /\ cached_video_path # Path("video", req.url)
    /\ cached_video_path \in files
    /\ now > slot_access["video"]

\* C10: while a handler is inside the yt_dlp call, a sweeper whose sleep has
\* elapsed can run and a request for a resident item can be served.
C10_LoopNotBlocked ==
    \A k \in Kinds :
        (req # NoReq /\ ~shut) =>
            /\ due[k] => ENABLED Sweep(k)
            /\ \A url \in URLs :
                 (cached(k) = Path(k, url) /\ Cardinality(pending) < MaxPending)
                    => ENABLED Request(k, url)

Other(k) == IF k = "video" THEN "audio" ELSE "video"

\* the files in kind k's cache directory
DirFiles(k) == {p \in files : p.dir = cache_dir(k)}

\* C11: a slot's resident is what the latest successful miss of that kind
\* installed (it changes only by such an install or by being cleared), and
\* while no request of that kind is running the kind's cache directory
\* holds no file other than the resident's.
C11_OneFilePerKind ==
    [][\A k \in Kinds :
         /\ \A o \in Outcomes :
              (Resume(k, o) /\ response'.status = 200) =>
                 cached(k)' = Path(k, req.url)
         /\ cached(k)' # cached(k) =>
              \/ cached(k)' = None
              \/ \E o \in Outcomes : Resume(k, o) /\ response'.status = 200
         /\ req'.kind # k => DirFiles(k)' \subseteq {cached(k)'}]_vars

\* C12: after a request failed in the yt_dlp call or in the existence
\* check, nothing that call wrote is left on disk, and nothing is left at
\* the handler's destination path.
C12_FailureLeavesNoFile ==
    [][\A k \in Kinds, o \in Outcomes :
         (Resume(k, o) /\ FailingOutcome(o)) =>
            /\ AdapterFiles(k, Path(k, req.url), o) \cap files' = {}
            /\ Path(k, req.url) \notin files']_vars

\* C13: a handler or sweeper step of one kind leaves the other kind's
\* cached path, its files and its last-access timestamp as they were.
C13_SlotsIndependent ==
    [][\A k \in Kinds :
         ((\E url \in URLs : Request(k, url)) \/
          (\E o \in Outcomes : Resume(k, o)) \/ Sweep(k)) =>
            /\ cached(Other(k))' = cached(Other(k))
            /\ DirFiles(Other(k))' = DirFiles(Other(k))
            /\ Resident(Other(k)) => last_access_time' = last_access_time]_vars

\* C14: a hit changes last_access_time only (to the current time), not the
\* cached paths or the files; a slot becomes resident only through a
\* successful download of its kind, and its resident changes only through
\* such a download or through its sweeper evicting it after its idle time
\* exceeded the expiry time.
C14_HitTouchesOnlyAccess ==
    [][\A k \in Kinds :
         /\ \A url \in URLs :
              (Request(k, url) /\ cached(k) = Path(k, url)) =>
                 /\ UNCHANGED <<cached_video_path, cached_audio_path, files>>
                 /\ last_access_time' = now
                 /\ slot_access'[k] = now
         /\ (~Resident(k) /\ Resident(k)') =>
              \E o \in Outcomes : Resume(k, o) /\ o = "ok"
         /\ (Resident(k) /\ cached(k)' # cached(k)) =>
              \/ \E o \in Outcomes :
                   Resume(k, o) /\ o = "ok" /\ cached(k)' = Path(k, req.url)
              \/ /\ Sweep(k)
                 /\ cached(k)' = None
                 /\ now - slot_access[k] > CACHE_EXPIRY_TIME]_vars

C14_Witness ==
    /\ response.hit
    /\ response.status = 200
    /\ response.path = cached_audio_path
    /\ response.path \in files
    /\ response.path \in pending
    /\ slot_access["audio"] = now
    /\ now > StartTime
    /\ Resident("video")
    /\ slot_access["video"] < now

\* C15: while a download for (kind, URL) is in flight, a second request for
\* the same kind and URL can be taken up, and it misses as well.
C15_ConcurrentSameMiss ==
    \A k \in Kinds, url \in URLs :
        (req = [kind |-> k, url |-> url] /\ Cardinality(pending) < MaxPending) =>
            /\ ~IsHit(cached(k), cache_filename(k, url))
            /\ ENABLED Request(k, url)

\* C16: once the shutdown handler has run, neither slot is resident and
\* neither cache directory holds a file.
C16_ShutdownClears ==
    shut => \A k \in Kinds : ~Resident(k) /\ DirFiles(k) = {}

\* C17: the filename and path of a URL differ between the kinds, a request
\* of one kind misses when only the other kind's slot holds that URL, and a
\* request that hits returns the path computed from its own URL and kind.
C17_KindsDoNotMatch ==
    [][\A k \in Kinds, url \in URLs :
         Request(k, url) =>
            /\ \A u2 \in URLs :
                 /\ cache_filename(k, url) # cache_filename(Other(k), u2)
                 /\ Path(k, url) # Path(Other(k), u2)
            /\ (cached(Other(k)) = Path(Other(k), url) /\ cached(k) # Path(k, url)) =>
                 /\ req' = [kind |-> k, url |-> url]
                 /\ UNCHANGED <<response, last_access_time>>
            /\ req' = NoReq =>
                 response' = [status |-> 200, path |-> Path(k, url), hit |-> TRUE]]_vars

C17_Witness ==
    /\ req.kind = "audio"
    /\ cached_video_path = Path("video", req.url)
    /\ cached_video_path \in files
    /\ cached_audio_path # Path("audio", req.url)

\* C18: the file of a FileResponse that a handler returned exists until the
\* framework has opened it.
C18_PendingFileExists ==
    \A p \in pending : p \in files
====
